---- MODULE Spec2Model ----
(***************************************************************************)
(* Layout state of the graph component (components/graph/state/layout.js): *)
(* the action creators, the selectors and the reducer, with JavaScript     *)
(* values modelled as tagged records and object identity modelled by an    *)
(* allocation counter.  The memoized chart-position selectors are modelled *)
(* with the caches fast-memoize and reselect keep for them.                *)
(***************************************************************************)
EXTENDS Integers, FiniteSets, Sequences, TLC

VARIABLES state, nextRef, lastCall, dispatched, cache

vars == <<state, nextRef, lastCall, dispatched, cache>>

\* ---------------------------------------------------------------- bounds
\* numbers used as widths, heights, pixel coordinates and dates: 0..MaxNum
MaxNum == 1
\* number of object allocations explored
MaxRef == 6
\* widths and heights the chart positions are computed for: 0..MaxSize
MaxSize == 13

\* ------------------------------------------------------ program constants
MOUNT_POINT == "components/graph/layout"
GRAPH_SIZE_SET == "components/graph/layout/GRAPH_SIZE_SET"
GRAPH_SELECTION_RECT_SET == "components/graph/layout/GRAPH_SELECTION_RECT_SET"
GRAPH_SELECTION_RECT_CLEAR == "components/graph/layout/GRAPH_SELECTION_RECT_CLEAR"
VIEWPORT_RESET == "components/graph/layout/VIEWPORT_RESET"
VIEWPORT_SET == "components/graph/layout/VIEWPORT_SET"

\* ------------------------------------------------------ JavaScript values
Undefined == [t |-> "undefined"]
Null == [t |-> "null"]
Num(n) == [t |-> "number", v |-> n]
\* an object: its identity (ref) and its own properties
Obj(ref, props) == [t |-> "object", ref |-> ref, props |-> props]
NoProps == [k \in {} |-> Undefined]

\* o[k] on a property map: a missing key reads as undefined
GetP(props, k) == IF k \in DOMAIN props THEN props[k] ELSE Undefined
\* o.k on a value that is an object
Get(o, k) == GetP(o.props, k)
\* reading a property of undefined or null throws a TypeError
Nullish(x) == x.t \in {"undefined", "null"}
\* the operand test of ||
Truthy(x) == \/ x.t = "object"
             \/ x.t = "number" /\ x.v # 0

\* outcome of a call: a returned value or a thrown error
Return(v) == [ok |-> TRUE, value |-> v]
Throw(e) == [ok |-> FALSE, error |-> e]

\* ------------------------------------------------------ number arithmetic
\* Numbers are IEEE 754 doubles.  Num(n) is an integer n; a number with a
\* fractional part is [t |-> "number", v |-> integer part, frac |-> the
\* FracBits binary digits after the point, least significant first].
\* NaN is what arithmetic on undefined gives.
NaN == [t |-> "NaN"]
\* significant binary digits of a double
Precision == 53
\* binary digits kept after the point: enough for 0.1 times a positive integer
FracBits == 56

\* Natural numbers of any size as sequences of binary digits, least
\* significant first, without leading zeros.
RECURSIVE Trim(_)
Trim(b) == IF b = <<>> THEN <<>>
           ELSE IF b[Len(b)] = 0 THEN Trim(SubSeq(b, 1, Len(b) - 1)) ELSE b
Zeros(k) == [i \in 1..k |-> 0]
ShiftL(b, k) == IF b = <<>> THEN <<>> ELSE Zeros(k) \o b
BitAt(b, i) == IF i <= Len(b) THEN b[i] ELSE 0
RECURSIVE AddFrom(_, _, _, _)
AddFrom(a, b, i, carry) ==
    IF i > Len(a) /\ i > Len(b)
    THEN IF carry = 1 THEN <<1>> ELSE <<>>
    ELSE LET sum == BitAt(a, i) + BitAt(b, i) + carry
         IN  <<sum % 2>> \o AddFrom(a, b, i + 1, sum \div 2)
AddB(a, b) == Trim(AddFrom(a, b, 1, 0))
RECURSIVE MulB(_, _)
MulB(a, b) == IF a = <<>> THEN <<>>
              ELSE AddB(IF a[1] = 1 THEN b ELSE <<>>, ShiftL(MulB(Tail(a), b), 1))
RECURSIVE IntToBits(_)
IntToBits(n) == IF n = 0 THEN <<>> ELSE <<n % 2>> \o IntToBits(n \div 2)
RECURSIVE BitsToInt(_)
BitsToInt(b) == IF b = <<>> THEN 0 ELSE b[1] + 2 * BitsToInt(Tail(b))
\* hexadecimal digits, most significant first, as binary digits
RECURSIVE HexBits(_)
HexBits(h) ==
    IF h = <<>> THEN <<>>
    ELSE LET d == h[Len(h)]
         IN  <<d % 2, (d \div 2) % 2, (d \div 4) % 2, d \div 8>>
                \o HexBits(SubSeq(h, 1, Len(h) - 1))

\* round to nearest, ties to even, keeping Precision significant digits
Round(b) ==
    IF Len(b) <= Precision THEN b
    ELSE LET d == Len(b) - Precision
             kept == SubSeq(b, d + 1, Len(b))
             sticky == \E i \in 1..(d - 1) : b[i] = 1
             up == b[d] = 1 /\ (sticky \/ kept[1] = 1)
         IN  Zeros(d) \o (IF up THEN AddB(kept, <<1>>) ELSE kept)

\* a number as a count of 2^-FracBits, and back
ToFix(x) ==
    IF "frac" \in DOMAIN x THEN Trim(x.frac \o IntToBits(x.v))
    ELSE ShiftL(IntToBits(x.v), FracBits)
FromFix(b) ==
    LET frac == [i \in 1..FracBits |-> BitAt(b, i)]
        int == BitsToInt(SubSeq(b, FracBits + 1, Len(b)))
    IN  IF frac = Zeros(FracBits) THEN Num(int)
        ELSE [t |-> "number", v |-> int, frac |-> frac]

\* the double literals of the module: mantissa * 2^-exp
Dbl08 == [mantissa |-> Trim(HexBits(<<1, 9, 9, 9, 9, 9, 9, 9, 9, 9, 9, 9, 9, 10>>)), exp |-> 53]
Dbl02 == [mantissa |-> Trim(HexBits(<<1, 9, 9, 9, 9, 9, 9, 9, 9, 9, 9, 9, 9, 10>>)), exp |-> 55]
Dbl09 == [mantissa |-> Trim(HexBits(<<1, 12, 12, 12, 12, 12, 12, 12, 12, 12, 12, 12, 12, 13>>)), exp |-> 53]
Dbl01 == [mantissa |-> Trim(HexBits(<<1, 9, 9, 9, 9, 9, 9, 9, 9, 9, 9, 9, 9, 10>>)), exp |-> 56]

\* x * c for a number x and a double literal c
Multiply(x, c) ==
    IF ToFix(x) = <<>> THEN Num(0)
    ELSE LET fix == ToFix(x)
             low == CHOOSE i \in 1..Len(fix) : fix[i] = 1 /\ \A j \in 1..(i - 1) : fix[j] = 0
             digits == SubSeq(fix, low, Len(fix))
             product == Round(ShiftL(MulB(digits, c.mantissa), low - 1))
         IN  FromFix(SubSeq(product, c.exp + 1, Len(product)))

\* the products of the small integers, computed once
Products ==
    [c \in {Dbl08, Dbl02, Dbl09, Dbl01} |-> [n \in 0..(MaxSize + 1) |-> Multiply(Num(n), c)]]

\* x * c as the module evaluates it; undefined converts to NaN
Times(x, c) ==
    IF x.t # "number" THEN NaN
    ELSE IF "frac" \notin DOMAIN x /\ x.v \in 0..(MaxSize + 1) /\ c \in DOMAIN Products
         THEN Products[c][x.v]
         ELSE Multiply(x, c)

\* ------------------------------------------------------- action creators
setViewport(arg) ==
    [type |-> VIEWPORT_SET,
     payload |-> Obj(0, [startDate |-> GetP(arg, "startDate"),
                         endDate |-> GetP(arg, "endDate")])]

resetViewport == [type |-> VIEWPORT_RESET, payload |-> Undefined]

setContainerSize(arg) ==
    [type |-> GRAPH_SIZE_SET,
     payload |-> Obj(0, [width |-> GetP(arg, "width"),
                         height |-> GetP(arg, "height")])]

setSelectionRect(arg) ==
    [type |-> GRAPH_SELECTION_RECT_SET,
     payload |-> Obj(0, [top |-> GetP(arg, "top"),
                         left |-> GetP(arg, "left"),
                         bottom |-> GetP(arg, "bottom"),
                         right |-> GetP(arg, "right")])]

clearSelectionRect == [type |-> GRAPH_SELECTION_RECT_CLEAR, payload |-> Undefined]

\* -------------------------------------------------------------- selectors
\* each takes the whole store state (a property map keyed by mount point)
getViewport(s) ==
    IF Nullish(GetP(s, MOUNT_POINT)) THEN Throw("TypeError")
    ELSE Return(Get(GetP(s, MOUNT_POINT), "viewport"))

getSelectionRect(s) ==
    IF Nullish(GetP(s, MOUNT_POINT)) THEN Throw("TypeError")
    ELSE Return(Get(GetP(s, MOUNT_POINT), "selectionRect"))

\* getContainerSize without the || default
getContainerSizeNoDefault(s, ref) ==
    IF Nullish(GetP(s, MOUNT_POINT)) THEN Throw("TypeError")
    ELSE Return(Get(GetP(s, MOUNT_POINT), "graphSize"))

\* getContainerSize reading the slice under the key without its prefix
getContainerSizeWrongMount(s, ref) ==
    IF Nullish(GetP(s, "layout")) THEN Throw("TypeError")
    ELSE LET graphSize == Get(GetP(s, "layout"), "graphSize")
         IN  IF Truthy(graphSize) THEN Return(graphSize)
             ELSE Return(Obj(ref, [width |-> Num(0), height |-> Num(0)]))

\* ref: the identity the default object literal gets when it is evaluated
getContainerSize(s, ref) ==
    IF Nullish(GetP(s, MOUNT_POINT)) THEN Throw("TypeError")
    ELSE LET graphSize == Get(GetP(s, MOUNT_POINT), "graphSize")
         IN  IF Truthy(graphSize) THEN Return(graphSize)
             ELSE Return(Obj(ref, [width |-> Num(0), height |-> Num(0)]))

\* -------------------------------------------------------- chart position
\* The arms of the switch on chartType.  ref: the identity of the object
\* literal returned.
\* the main chart over nine tenths of the width
caseMainNarrow(size, ref) ==
    Obj(ref, [x |-> Num(0), y |-> Num(0),
              width |-> Times(Get(size, "width"), Dbl09),
              height |-> Times(Get(size, "height"), Dbl08)])

caseMain(size, ref) ==
    Obj(ref, [x |-> Num(0),
              y |-> Num(0),
              width |-> Get(size, "width"),
              height |-> Times(Get(size, "height"), Dbl08)])

\* the panner with the main chart's share of the height
casePannerMainShare(size, ref) ==
    Obj(ref, [x |-> Num(0), y |-> Times(Get(size, "height"), Dbl08),
              width |-> Get(size, "width"),
              height |-> Times(Get(size, "height"), Dbl08)])

casePanner(size, ref) ==
    Obj(ref, [x |-> Num(0),
              y |-> Times(Get(size, "height"), Dbl08),
              width |-> Get(size, "width"),
              height |-> Times(Get(size, "height"), Dbl02)])

\* the lithography chart with its two width factors exchanged
caseLithographySwapped(size, ref) ==
    Obj(ref, [x |-> Times(Get(size, "width"), Dbl01), y |-> Num(0),
              width |-> Times(Get(size, "width"), Dbl09),
              height |-> Times(Get(size, "height"), Dbl08)])

caseLithography(size, ref) ==
    Obj(ref, [x |-> Times(Get(size, "width"), Dbl09),
              y |-> Num(0),
              width |-> Times(Get(size, "width"), Dbl01),
              height |-> Times(Get(size, "height"), Dbl08)])

\* no case matches: the function ends without a return
\* an unmatched chart type treated as 'main'
caseNoneAsMain(size, ref) ==
    Obj(ref, [x |-> Num(0), y |-> Num(0),
              width |-> Get(size, "width"),
              height |-> Times(Get(size, "height"), Dbl08)])

caseNone(size, ref) == Undefined

\* the result function handed to createSelector
resultFunc(chartType, size, ref) ==
    CASE chartType = "main" -> caseMain(size, ref)
      [] chartType = "panner" -> casePanner(size, ref)
      [] chartType = "lithography" -> caseLithography(size, ref)
      [] OTHER -> caseNone(size, ref)

\* createSelector(getContainerSize, resultFunc): a function object with two
\* one-entry caches, both compared with ===: the arguments and result of the
\* selector itself, and the arguments and result of the result function
createSelector(fn, chartType) ==
    [fn |-> fn, chartType |-> chartType,
     lastArgs |-> Null, lastResult |-> Null,
     resultArgs |-> Null, resultValue |-> Null]

\* selector(s): the outcome and the selector with its caches afterwards.
\* The store's state object is a new object exactly when its slice is.
\* a selector that recomputes whenever the state object is new
callSelectorNoResultMemo(sel, s, ref) ==
    IF sel.lastArgs = s
    THEN [outcome |-> Return(sel.lastResult), selector |-> sel]
    ELSE LET size == getContainerSize(s, ref)
         IN  IF ~size.ok
             THEN [outcome |-> size, selector |-> sel]
             ELSE LET value == resultFunc(sel.chartType, size.value,
                                          IF size.value.t = "object" /\ size.value.ref = ref
                                          THEN ref + 1 ELSE ref)
                  IN  [outcome |-> Return(value),
                       selector |-> [sel EXCEPT !.lastArgs = s, !.lastResult = value,
                                                !.resultArgs = size.value,
                                                !.resultValue = value]]

\* a selector that recomputes on every call
callSelectorUncached(sel, s, ref) ==
    LET size == getContainerSize(s, ref)
    IN  IF ~size.ok
        THEN [outcome |-> size, selector |-> sel]
        ELSE LET value == resultFunc(sel.chartType, size.value,
                                     IF size.value.t = "object" /\ size.value.ref = ref
                                     THEN ref + 1 ELSE ref)
             IN  [outcome |-> Return(value),
                  selector |-> [sel EXCEPT !.lastArgs = s, !.lastResult = value,
                                           !.resultArgs = size.value,
                                           !.resultValue = value]]

\* a selector that keeps its first result for good
callSelectorSticky(sel, s, ref) ==
    IF sel.lastArgs # Null
    THEN [outcome |-> Return(sel.lastResult), selector |-> sel]
    ELSE LET size == getContainerSize(s, ref)
         IN  IF ~size.ok
             THEN [outcome |-> size, selector |-> sel]
             ELSE LET value == resultFunc(sel.chartType, size.value,
                                          IF size.value.t = "object" /\ size.value.ref = ref
                                          THEN ref + 1 ELSE ref)
                  IN  [outcome |-> Return(value),
                       selector |-> [sel EXCEPT !.lastArgs = s, !.lastResult = value,
                                                !.resultArgs = size.value,
                                                !.resultValue = value]]

callSelector(sel, s, ref) ==
    IF sel.lastArgs = s
    THEN [outcome |-> Return(sel.lastResult), selector |-> sel]
    ELSE LET size == getContainerSize(s, ref)
         IN  IF ~size.ok
             THEN [outcome |-> size, selector |-> sel]
             ELSE LET value == IF sel.resultArgs = size.value
                               THEN sel.resultValue
                               ELSE resultFunc(sel.chartType, size.value,
                                               IF size.value.t = "object" /\ size.value.ref = ref
                                               THEN ref + 1 ELSE ref)
                  IN  [outcome |-> Return(value),
                       selector |-> [sel EXCEPT !.lastArgs = s, !.lastResult = value,
                                                !.resultArgs = size.value,
                                                !.resultValue = value]]

\* getChartPosition(chartType) through memoize: the selector kept for the
\* argument, created on its first request; c is the cache of memoize
\* one selector kept for every argument
getChartPositionShared(c, chartType) ==
    IF DOMAIN c # {} THEN c[CHOOSE k \in DOMAIN c : TRUE]
    ELSE createSelector(1, chartType)

getChartPosition(c, chartType) ==
    IF chartType \in DOMAIN c THEN c[chartType]
    ELSE createSelector(Cardinality(DOMAIN c) + 1, chartType)

\* ----------------------------------------------------------------- scales
\* A scale is a function object that reports its domain and its range.
\* The result functions of getScaleX and getScaleY (state/scales.js):
\* the domain as given, the range from 0 to the container's width or height.
\* the x scale ranging over the height
getScaleXHeight(domain, size) ==
    [t |-> "function", domain |-> domain, range |-> <<Num(0), Get(size, "height")>>]

getScaleX(domain, size) ==
    [t |-> "function", domain |-> domain, range |-> <<Num(0), Get(size, "width")>>]

getScaleY(domain, size) ==
    [t |-> "function", domain |-> domain, range |-> <<Num(0), Get(size, "height")>>]

\* ---------------------------------------------------------------- reducer
\* {key: val} without the spread of the previous state
SpreadDropped(st, ref, key, val) == Obj(ref, [k \in {key} |-> val])

\* {...st, key: val} as a new object with identity ref
Spread(st, ref, key, val) ==
    Obj(ref, [k \in DOMAIN st.props \cup {key} |->
                 IF k = key THEN val ELSE st.props[k]])

\* The arms of the reducer's switch.  ref, ref + 1: the identities of the
\* objects the call allocates.
\* GRAPH_SIZE_SET with width and height taken from each other's field
caseGraphSizeSetSwapped(st, action, ref) ==
    IF Nullish(action.payload) THEN Throw("TypeError")
    ELSE Return(Spread(st, ref, "graphSize",
             Obj(ref + 1, [width |-> Get(action.payload, "height"),
                           height |-> Get(action.payload, "width")])))

\* GRAPH_SIZE_SET with 0 in place of a value the payload lacks
caseGraphSizeSetDefaulting(st, action, ref) ==
    IF Nullish(action.payload) THEN Throw("TypeError")
    ELSE Return(Spread(st, ref, "graphSize",
             Obj(ref + 1, [k \in {"width", "height"} |->
                              IF Get(action.payload, k) = Undefined THEN Num(0)
                              ELSE Get(action.payload, k)])))

caseGraphSizeSet(st, action, ref) ==
    IF Nullish(action.payload) THEN Throw("TypeError")
    ELSE Return(Spread(st, ref, "graphSize",
             Obj(ref + 1, [width |-> Get(action.payload, "width"),
                           height |-> Get(action.payload, "height")])))

\* GRAPH_SELECTION_RECT_SET with right copied from bottom
caseSelectionRectSetCopied(st, action, ref) ==
    IF Nullish(action.payload) THEN Throw("TypeError")
    ELSE Return(Spread(st, ref, "selectionRect",
             Obj(ref + 1, [top |-> Get(action.payload, "top"),
                           left |-> Get(action.payload, "left"),
                           bottom |-> Get(action.payload, "bottom"),
                           right |-> Get(action.payload, "bottom")])))

\* GRAPH_SELECTION_RECT_SET rejecting a payload that lacks a field
caseSelectionRectSetValidating(st, action, ref) ==
    IF Nullish(action.payload) THEN Throw("TypeError")
    ELSE IF \E k \in {"top", "left", "bottom", "right"} : Get(action.payload, k) = Undefined
         THEN Throw("Error")
         ELSE Return(Spread(st, ref, "selectionRect",
                  Obj(ref + 1, [top |-> Get(action.payload, "top"),
                                left |-> Get(action.payload, "left"),
                                bottom |-> Get(action.payload, "bottom"),
                                right |-> Get(action.payload, "right")])))

caseSelectionRectSet(st, action, ref) ==
    IF Nullish(action.payload) THEN Throw("TypeError")
    ELSE Return(Spread(st, ref, "selectionRect",
             Obj(ref + 1, [top |-> Get(action.payload, "top"),
                           left |-> Get(action.payload, "left"),
                           bottom |-> Get(action.payload, "bottom"),
                           right |-> Get(action.payload, "right")])))

\* GRAPH_SELECTION_RECT_CLEAR writing the viewport key
caseSelectionRectClearViewport(st, action, ref) ==
    Return(Spread(st, ref, "viewport", Null))

caseSelectionRectClear(st, action, ref) ==
    Return(Spread(st, ref, "selectionRect", Null))

\* VIEWPORT_SET putting the two dates in ascending order
caseViewportSetOrdered(st, action, ref) ==
    IF Nullish(action.payload) THEN Throw("TypeError")
    ELSE LET s == Get(action.payload, "startDate")
             e == Get(action.payload, "endDate")
             swap == s.t = "number" /\ e.t = "number" /\ s.v > e.v
         IN  Return(Spread(st, ref, "viewport",
                 Obj(ref + 1, [startDate |-> IF swap THEN e ELSE s,
                               endDate |-> IF swap THEN s ELSE e])))

caseViewportSet(st, action, ref) ==
    IF Nullish(action.payload) THEN Throw("TypeError")
    ELSE Return(Spread(st, ref, "viewport",
             Obj(ref + 1, [startDate |-> Get(action.payload, "startDate"),
                           endDate |-> Get(action.payload, "endDate")])))

\* VIEWPORT_RESET storing an empty viewport object instead of null
caseViewportResetEmptyObject(st, action, ref) ==
    Return(Spread(st, ref, "viewport",
        Obj(ref + 1, [startDate |-> Undefined, endDate |-> Undefined])))

caseViewportReset(st, action, ref) ==
    Return(Spread(st, ref, "viewport", Null))

\* the default arm returning a copy {...st}
caseDefaultCopy(st, action, ref) == Return(Obj(ref, st.props))

caseDefault(st, action, ref) == Return(st)

reducer(st, action, ref) ==
    CASE action.type = GRAPH_SIZE_SET -> caseGraphSizeSet(st, action, ref)
      [] action.type = GRAPH_SELECTION_RECT_SET -> caseSelectionRectSet(st, action, ref)
      [] action.type = GRAPH_SELECTION_RECT_CLEAR -> caseSelectionRectClear(st, action, ref)
      [] action.type = VIEWPORT_SET -> caseViewportSet(st, action, ref)
      [] action.type = VIEWPORT_RESET -> caseViewportReset(st, action, ref)
      [] OTHER -> caseDefault(st, action, ref)

\* the store built from the default export: one slice under MOUNT_POINT
Store(layout) == [k \in {MOUNT_POINT} |-> layout]

\* ----------------------------------------------------------------- inputs
Nums == {Num(n) : n \in 0..MaxNum}
SizeArgs == [width : Nums, height : Nums]
\* an ascending, a descending and an empty range
ViewportArgs == {[startDate |-> Num(0), endDate |-> Num(MaxNum)],
                 [startDate |-> Num(MaxNum), endDate |-> Num(0)],
                 [startDate |-> Num(0), endDate |-> Num(0)]}
RectArgs == {[top |-> Num(0), left |-> Num(0), bottom |-> Num(MaxNum), right |-> Num(MaxNum)],
             [top |-> Num(MaxNum), left |-> Num(MaxNum), bottom |-> Num(0), right |-> Num(0)],
             [top |-> Num(0), left |-> Num(MaxNum), bottom |-> Num(0), right |-> Num(MaxNum)]}
RecognizedTypes == {GRAPH_SIZE_SET, GRAPH_SELECTION_RECT_SET, GRAPH_SELECTION_RECT_CLEAR,
                    VIEWPORT_SET, VIEWPORT_RESET}
\* types the reducer does not know: another module's, and one without the prefix
OtherTypes == {"UNKNOWN", "GRAPH_SIZE_SET"}
\* payloads of hand-built actions: none, and an object lacking every field
RawPayloads == {Undefined, Obj(0, NoProps)}
RawActions == [type : RecognizedTypes \cup OtherTypes, payload : RawPayloads]
\* store states handed to a selector besides the current one
EmptyState == NoProps
\* the chart types of the graph, and every argument getChartPosition is
\* called with: those and one it has no case for
Panels == {"main", "panner", "lithography"}
ChartTypes == Panels \cup {"unknown"}
\* the container sizes the chart positions are computed for: every width
\* and every height of 0..MaxSize
ChartSizes == {[width |-> Num(n), height |-> Num(MaxSize - n)] : n \in 0..MaxSize}
\* the domains handed to the scales: ascending, descending and degenerate
Domains == {<<a, b>> : a \in Nums, b \in Nums}

\* ------------------------------------------------------------------ state
Init ==
    /\ state = Store(Obj(0, NoProps))
    /\ nextRef = 1
    /\ lastCall = [fn |-> "none"]
    /\ dispatched = {}
    /\ cache = [k \in {} |-> Null]

\* the allocation counter after a call that returned v: past every identity
\* found in v
RefsOf(v) ==
    IF v.t # "object" THEN {}
    ELSE {v.ref} \cup {v.props[k].ref : k \in {j \in DOMAIN v.props : v.props[j].t = "object"}}
Allocated(v, ref) == IF \E r \in RefsOf(v) : r >= ref
                     THEN 1 + CHOOSE r \in RefsOf(v) : \A q \in RefsOf(v) : q <= r
                     ELSE ref

\* what the record of dispatched actions keeps of an action: whether it was
\* a GRAPH_SIZE_SET or anything else
Kind(type) == IF type = GRAPH_SIZE_SET THEN GRAPH_SIZE_SET ELSE "other"

\* store.dispatch(action): the slice under MOUNT_POINT is replaced by the
\* reducer's result; a throwing reducer leaves the store as it was
Dispatch(action) ==
    LET st == state[MOUNT_POINT]
        out == reducer(st, action, nextRef)
    IN  /\ out.ok => Allocated(out.value, nextRef) <= MaxRef
        /\ lastCall' = [fn |-> "reducer", state |-> st, action |-> action, outcome |-> out]
        /\ IF out.ok
           THEN /\ state' = Store(out.value)
                /\ nextRef' = Allocated(out.value, nextRef)
           ELSE UNCHANGED <<state, nextRef>>
        /\ dispatched' = dispatched \cup {Kind(action.type)}
        /\ UNCHANGED cache

DispatchSetContainerSize == \E arg \in SizeArgs : Dispatch(setContainerSize(arg))
DispatchSetSelectionRect == \E arg \in RectArgs : Dispatch(setSelectionRect(arg))
DispatchClearSelectionRect == Dispatch(clearSelectionRect)
DispatchSetViewport == \E arg \in ViewportArgs : Dispatch(setViewport(arg))
DispatchResetViewport == Dispatch(resetViewport)
DispatchRaw == \E action \in RawActions : Dispatch(action)

\* a selector applied to the current store state or to the empty object
CallGetContainerSize ==
    /\ nextRef + 1 <= MaxRef
    /\ \E s \in {state, EmptyState} :
         LET out == getContainerSize(s, nextRef)
         IN  /\ lastCall' = [fn |-> "getContainerSize", state |-> s, outcome |-> out]
             /\ nextRef' = IF out.ok THEN Allocated(out.value, nextRef) ELSE nextRef
    /\ UNCHANGED <<state, dispatched, cache>>

CallGetSelectionRect ==
    /\ \E s \in {state, EmptyState} :
         lastCall' = [fn |-> "getSelectionRect", state |-> s, outcome |-> getSelectionRect(s)]
    /\ UNCHANGED <<state, nextRef, dispatched, cache>>

CallGetViewport ==
    /\ \E s \in {state, EmptyState} :
         lastCall' = [fn |-> "getViewport", state |-> s, outcome |-> getViewport(s)]
    /\ UNCHANGED <<state, nextRef, dispatched, cache>>

\* getChartPosition(chartType)(s)
QueryChartPosition(chartType, s) ==
    LET sel == getChartPosition(cache, chartType)
        call == callSelector(sel, s, nextRef)
        ref == IF call.outcome.ok
               THEN Allocated(call.outcome.value, Allocated(call.selector.resultArgs, nextRef))
               ELSE nextRef
    IN  /\ ref <= MaxRef
        /\ cache' = [k \in DOMAIN cache \cup {chartType} |->
                        IF k = chartType THEN call.selector ELSE cache[k]]
        /\ lastCall' = [fn |-> "getChartPosition", chartType |-> chartType,
                        selector |-> sel.fn, state |-> s, outcome |-> call.outcome]
        /\ nextRef' = ref
        /\ UNCHANGED <<state, dispatched>>

\* any chart type, on the current store state
CallGetChartPosition ==
    \E chartType \in ChartTypes : QueryChartPosition(chartType, state)

\* getScaleX.resultFunc and getScaleY.resultFunc on a domain and the
\* container size of the current store state
CallGetScaleX ==
    /\ \E domain \in Domains :
         LET size == getContainerSize(state, nextRef)
         IN  /\ Allocated(size.value, nextRef) <= MaxRef
             /\ lastCall' = [fn |-> "getScaleX", domain |-> domain, size |-> size.value,
                             outcome |-> Return(getScaleX(domain, size.value))]
             /\ nextRef' = Allocated(size.value, nextRef)
    /\ UNCHANGED <<state, dispatched, cache>>

CallGetScaleY ==
    /\ \E domain \in Domains :
         LET size == getContainerSize(state, nextRef)
         IN  /\ Allocated(size.value, nextRef) <= MaxRef
             /\ lastCall' = [fn |-> "getScaleY", domain |-> domain, size |-> size.value,
                             outcome |-> Return(getScaleY(domain, size.value))]
             /\ nextRef' = Allocated(size.value, nextRef)
    /\ UNCHANGED <<state, dispatched, cache>>

Next ==
    \/ DispatchSetContainerSize
    \/ DispatchSetSelectionRect
    \/ DispatchClearSelectionRect
    \/ DispatchSetViewport
    \/ DispatchResetViewport
    \/ DispatchRaw
    \/ CallGetContainerSize
    \/ CallGetSelectionRect
    \/ CallGetViewport

Spec == Init /\ [][Next]_vars

\* The store and the chart-position selectors: the container size and other
\* fields are set and cleared, and the selectors are called in between.
NextMemo ==
    \/ DispatchSetContainerSize
    \/ DispatchSetViewport
    \/ CallGetChartPosition

SpecMemo == Init /\ [][NextMemo]_vars

\* The chart positions and scales of a container of each size: the store
\* after one setContainerSize, then the selectors called on it.
InitSizes ==
    \E arg \in ChartSizes :
        LET st == Obj(0, NoProps)
            action == setContainerSize(arg)
            out == reducer(st, action, 1)
        IN  /\ state = Store(out.value)
            /\ nextRef = Allocated(out.value, 1)
            /\ lastCall = [fn |-> "reducer", state |-> st, action |-> action, outcome |-> out]
            /\ dispatched = {Kind(action.type)}
            /\ cache = [k \in {} |-> Null]

NextSizes ==
    \/ CallGetChartPosition
    \/ CallGetScaleX
    \/ CallGetScaleY

SpecSizes == InitSizes /\ [][NextSizes]_vars

\* ------------------------------------------------------------ properties
ReducerCalled == lastCall.fn = "reducer"
ReducerReturned == ReducerCalled /\ lastCall.outcome.ok
SetTypes == {GRAPH_SIZE_SET, GRAPH_SELECTION_RECT_SET, VIEWPORT_SET}
LayoutKeys == {"graphSize", "selectionRect", "viewport"}
\* the action types whose arm writes a key of the layout record
Writers(k) ==
    CASE k = "graphSize" -> {GRAPH_SIZE_SET}
      [] k = "selectionRect" -> {GRAPH_SELECTION_RECT_SET, GRAPH_SELECTION_RECT_CLEAR}
      [] k = "viewport" -> {VIEWPORT_SET, VIEWPORT_RESET}
\* a selector's answer meaning "nothing there"
Absent(out) == out.ok /\ Nullish(out.value)
ZeroSize == [width |-> Num(0), height |-> Num(0)]
\* the properties of a value, none when it is not an object
PropsOf(v) == IF v.t = "object" THEN v.props ELSE NoProps

\* C1: for an action whose type is none of the five recognized types the
\* reducer returns the very object it was given (same identity, same
\* properties), and the store keeps it.
C1_UnknownActionIsIdentity ==
    (ReducerCalled /\ lastCall.action.type \notin RecognizedTypes)
        => /\ lastCall.outcome = Return(lastCall.state)
           /\ state = Store(lastCall.state)

C1_Witness ==
    /\ ReducerCalled
    /\ lastCall.action.type \notin RecognizedTypes
    /\ lastCall.action.payload # Undefined
    /\ DOMAIN lastCall.state.props = LayoutKeys

\* C2: a transition changes a key of the layout record only when the action
\* is one of that key's own types; every other key is carried over with the
\* same value and the same object identity, and none appears or disappears.
C2_FieldsChangeOnlyOnOwnTransitions ==
    ReducerReturned =>
        \A k \in LayoutKeys :
            lastCall.action.type \notin Writers(k) =>
                /\ Get(lastCall.outcome.value, k) = Get(lastCall.state, k)
                /\ (k \in DOMAIN lastCall.outcome.value.props) = (k \in DOMAIN lastCall.state.props)

C2_Witness ==
    /\ ReducerReturned
    /\ lastCall.action.type = VIEWPORT_SET
    /\ Get(lastCall.state, "graphSize").t = "object"
    /\ Get(lastCall.state, "selectionRect") = Null
    /\ Get(lastCall.outcome.value, "graphSize").ref = Get(lastCall.state, "graphSize").ref
    /\ lastCall.outcome.value.ref # lastCall.state.ref

\* C3: after the action built by setContainerSize({width: w, height: h})
\* graphSize is exactly {width: w, height: h} and getContainerSize returns
\* it; no later call other than a GRAPH_SIZE_SET transition changes what
\* getContainerSize returns.
C3_AfterSet ==
    (ReducerCalled /\ \E arg \in SizeArgs : lastCall.action = setContainerSize(arg))
        => /\ lastCall.outcome.ok
           /\ Get(lastCall.outcome.value, "graphSize").t = "object"
           /\ Get(lastCall.outcome.value, "graphSize").props
                 = [width |-> Get(lastCall.action.payload, "width"),
                    height |-> Get(lastCall.action.payload, "height")]
           /\ getContainerSize(state, nextRef)
                 = Return(Get(lastCall.outcome.value, "graphSize"))

C3_KeptUntilNextSet ==
    ~(lastCall'.fn = "reducer" /\ lastCall'.action.type = GRAPH_SIZE_SET)
        => PropsOf(getContainerSize(state', nextRef').value)
              = PropsOf(getContainerSize(state, nextRef).value)

C3_SetContainerSizeSetsGraphSize == []C3_AfterSet /\ [][C3_KeptUntilNextSet]_vars

C3_Witness ==
    /\ ReducerReturned
    /\ lastCall.action = setContainerSize([width |-> Num(MaxNum), height |-> Num(0)])
    /\ Get(lastCall.state, "graphSize").t = "object"
    /\ Get(lastCall.state, "graphSize").props = [width |-> Num(0), height |-> Num(MaxNum)]

\* C4: GRAPH_SELECTION_RECT_CLEAR leaves selectionRect null whatever it was
\* before, and getSelectionRect reports nothing from then (and from the
\* start) until a GRAPH_SELECTION_RECT_SET transition.
C4_AfterClear ==
    (ReducerCalled /\ lastCall.action.type = GRAPH_SELECTION_RECT_CLEAR)
        => /\ lastCall.outcome.ok
           /\ Get(lastCall.outcome.value, "selectionRect") = Null
           /\ getSelectionRect(state) = Return(Null)

C4_AbsentUntilNextSet ==
    (/\ Absent(getSelectionRect(state))
     /\ ~(lastCall'.fn = "reducer" /\ lastCall'.action.type = GRAPH_SELECTION_RECT_SET))
        => Absent(getSelectionRect(state'))

C4_ClearSelectionRectClears == []C4_AfterClear /\ [][C4_AbsentUntilNextSet]_vars

C4_Witness ==
    /\ ReducerReturned
    /\ lastCall.action = clearSelectionRect
    /\ Get(lastCall.state, "selectionRect").t = "object"
    /\ Get(lastCall.state, "graphSize").t = "object"

\* C5: VIEWPORT_RESET leaves viewport null whatever it was before, and
\* getViewport reports nothing from then (and from the start) until a
\* VIEWPORT_SET transition.
C5_AfterReset ==
    (ReducerCalled /\ lastCall.action.type = VIEWPORT_RESET)
        => /\ lastCall.outcome.ok
           /\ Get(lastCall.outcome.value, "viewport") = Null
           /\ getViewport(state) = Return(Null)

C5_AbsentUntilNextSet ==
    (/\ Absent(getViewport(state))
     /\ ~(lastCall'.fn = "reducer" /\ lastCall'.action.type = VIEWPORT_SET))
        => Absent(getViewport(state'))

C6_SetSelectionRectStoresFourValues ==
    (ReducerCalled /\ \E arg \in RectArgs : lastCall.action = setSelectionRect(arg))
        => /\ lastCall.outcome.ok
           /\ Get(lastCall.outcome.value, "selectionRect").t = "object"
           /\ Get(lastCall.outcome.value, "selectionRect").props
                 = [top |-> Get(lastCall.action.payload, "top"),
                    left |-> Get(lastCall.action.payload, "left"),
                    bottom |-> Get(lastCall.action.payload, "bottom"),
                    right |-> Get(lastCall.action.payload, "right")]
           /\ Get(lastCall.outcome.value, "selectionRect") # Get(lastCall.state, "selectionRect")
           /\ getSelectionRect(state) = Return(Get(lastCall.outcome.value, "selectionRect"))

C6_Witness ==
    /\ ReducerReturned
    /\ lastCall.action.type = GRAPH_SELECTION_RECT_SET
    /\ Get(lastCall.state, "selectionRect").t = "object"
    /\ Get(lastCall.state, "selectionRect").props # Get(lastCall.outcome.value, "selectionRect").props
    /\ Get(lastCall.action.payload, "top").v > Get(lastCall.action.payload, "bottom").v
    /\ Get(lastCall.action.payload, "left").v > Get(lastCall.action.payload, "right").v

\* C7: after the action built by setViewport({startDate, endDate}) viewport
\* is exactly {startDate, endDate}, also when startDate > endDate.
C7_SetViewportStoresDates ==
    (ReducerCalled /\ \E arg \in ViewportArgs : lastCall.action = setViewport(arg))
        => /\ lastCall.outcome.ok
           /\ Get(lastCall.outcome.value, "viewport").t = "object"
           /\ Get(lastCall.outcome.value, "viewport").props
                 = [startDate |-> Get(lastCall.action.payload, "startDate"),
                    endDate |-> Get(lastCall.action.payload, "endDate")]
           /\ getViewport(state) = Return(Get(lastCall.outcome.value, "viewport"))

C7_Witness ==
    /\ ReducerReturned
    /\ lastCall.action.type = VIEWPORT_SET
    /\ Get(lastCall.state, "viewport").t = "object"
    /\ Get(lastCall.outcome.value, "viewport").props.startDate.v
          > Get(lastCall.outcome.value, "viewport").props.endDate.v

\* C8 (as stated): the reducer returns a state for every action, whatever
\* its type and whether its payload is well-formed, malformed or missing.
C8_ReducerTotal ==
    ReducerCalled => lastCall.outcome.ok /\ lastCall.outcome.value.t = "object"

\* C8 (amended): the reducer returns a state for every action that carries a
\* payload object (complete or lacking fields) and for every action whose
\* type is not one of the three set types; a set action without a payload
\* makes it throw a TypeError, and the store keeps its state.
C8_ReducerTotalGivenPayload ==
    ReducerCalled =>
        IF lastCall.action.type \in SetTypes /\ Nullish(lastCall.action.payload)
        THEN lastCall.outcome = Throw("TypeError") /\ state = Store(lastCall.state)
        ELSE lastCall.outcome.ok /\ lastCall.outcome.value.t = "object"

C8_Witness ==
    /\ ReducerReturned
    /\ lastCall.action.type \in SetTypes
    /\ lastCall.action.payload = Obj(0, NoProps)
    /\ DOMAIN lastCall.state.props # {}

C10_EmptyObjectGivesDefault ==
    (lastCall.fn = "getContainerSize" /\ lastCall.state = EmptyState)
        => lastCall.outcome.ok /\ PropsOf(lastCall.outcome.value) = ZeroSize

\* C10 (amended): getContainerSize applied to a state whose entry under the
\* mount point is a record without graphSize returns a new
\* {width: 0, height: 0}; applied to the object {} with no entry under the
\* mount point it throws a TypeError.
C10_EmptyLayoutGivesDefault ==
    lastCall.fn = "getContainerSize" =>
        /\ (MOUNT_POINT \in DOMAIN lastCall.state
               /\ "graphSize" \notin DOMAIN lastCall.state[MOUNT_POINT].props)
              => /\ lastCall.outcome.ok
                 /\ lastCall.outcome.value = Obj(nextRef - 1, ZeroSize)
        /\ lastCall.state = EmptyState => lastCall.outcome = Throw("TypeError")

C10_Witness ==
    /\ lastCall.fn = "getContainerSize"
    /\ lastCall.state = Store(Obj(0, NoProps))
    /\ lastCall.outcome.ok

\* ------------------------------------------------- chart position claims
\* what the selector of a chart type would answer for the current state
QueryNow(chartType) ==
    callSelector(getChartPosition(cache, chartType), state, nextRef).outcome
\* the chart types whose selector has computed a result
Queried == {p \in DOMAIN cache : cache[p].lastArgs # Null}
ChartPositionCalled == lastCall.fn = "getChartPosition"
\* the container size of the current state
SizeNow == getContainerSize(state, nextRef).value
\* the position the switch computes for a chart type from the current size
Computed(chartType) == resultFunc(chartType, SizeNow, 0)
\* a <= b
RECURSIVE LeqFrom(_, _, _)
LeqFrom(a, b, i) ==
    IF i = 0 THEN TRUE
    ELSE IF BitAt(a, i) # BitAt(b, i) THEN BitAt(a, i) < BitAt(b, i)
         ELSE LeqFrom(a, b, i - 1)
LeqB(a, b) == LeqFrom(a, b, IF Len(a) > Len(b) THEN Len(a) ELSE Len(b))

\* x + y rounded as the sum of two numbers is
Plus(x, y) ==
    IF x.t # "number" \/ y.t # "number" THEN NaN
    ELSE FromFix(Round(AddB(ToFix(x), ToFix(y))))

\* a and b differ by no more than scale * 2^-51
Near(a, b, scale) ==
    LET slack == IntToBits(32 * scale.v)
    IN  /\ LeqB(ToFix(a), AddB(ToFix(b), slack))
        /\ LeqB(ToFix(b), AddB(ToFix(a), slack))
\* a < b
Below(a, b) == LeqB(ToFix(a), ToFix(b)) /\ a # b

\* C11 (as stated): whenever the container size of the current state has
\* the width and height a panel's selector last computed for, the selector
\* returns the instance it returned before.
C11_SameSizeSameInstance ==
    \A p \in Queried \cap Panels :
        PropsOf(SizeNow) = PropsOf(cache[p].resultArgs)
            => QueryNow(p) = Return(cache[p].lastResult)

\* C11 (amended): a panel's selector returns the instance it returned
\* before exactly when the state is the object it was last called with or
\* getContainerSize returns the object it last computed for; otherwise it
\* computes a new instance, also when width and height are the same.
C11_SameObjectSameInstance ==
    \A p \in Queried \cap Panels :
        IF state = cache[p].lastArgs \/ SizeNow = cache[p].resultArgs
        THEN QueryNow(p) = Return(cache[p].lastResult)
        ELSE /\ QueryNow(p).ok
             /\ QueryNow(p).value.t = "object"
             /\ QueryNow(p).value.ref >= nextRef
             /\ QueryNow(p).value # cache[p].lastResult
             /\ QueryNow(p).value.props = Computed(p).props

\* a panel asked again after a transition that kept the graphSize object:
\* the position returned is older than the state it was returned for
C11_Witness ==
    /\ ChartPositionCalled
    /\ lastCall.chartType \in Panels
    /\ lastCall.outcome.ok
    /\ lastCall.outcome.value.ref < lastCall.state[MOUNT_POINT].ref
    /\ Get(lastCall.state[MOUNT_POINT], "graphSize").t = "object"
    /\ Get(lastCall.state[MOUNT_POINT], "graphSize").ref < lastCall.outcome.value.ref

\* C12: asking again for a panel on the state it was just asked for gives
\* the identical instance, and after a GRAPH_SIZE_SET transition that
\* changed width or height every panel asked for before gets a new object.
C12_SameStateSameInstance ==
    (ChartPositionCalled /\ lastCall.chartType \in Panels /\ lastCall.outcome.ok)
        => /\ lastCall.state = state
           /\ QueryNow(lastCall.chartType) = lastCall.outcome

C12_NewObjectAfterResize ==
    (/\ ReducerReturned
     /\ lastCall.action.type = GRAPH_SIZE_SET
     /\ PropsOf(SizeNow)
           # PropsOf(getContainerSize(Store(lastCall.state), nextRef).value))
        => \A p \in Queried \cap Panels :
               /\ QueryNow(p).ok
               /\ QueryNow(p).value.t = "object"
               /\ QueryNow(p).value.ref >= nextRef
               /\ QueryNow(p).value # cache[p].lastResult

C12_MemoizedOnState == C12_SameStateSameInstance /\ C12_NewObjectAfterResize

C12_Witness ==
    /\ ReducerReturned
    /\ lastCall.action.type = GRAPH_SIZE_SET
    /\ PropsOf(SizeNow) # PropsOf(getContainerSize(Store(lastCall.state), nextRef).value)
    /\ "main" \in Queried
    /\ cache["main"].lastResult.t = "object"

\* the container's width and height and the positions last computed
Width == Get(SizeNow, "width")
Height == Get(SizeNow, "height")
Position(p) == cache[p].lastResult
\* the heights h of 0..MaxSize + 1 for which h * 0.8 + h * 0.2 is not h
InexactHeights == {3, 6, 7, 12, 14}
\* the widths w of 0..MaxSize + 1 for which w * 0.9 + w * 0.1 is not w
InexactWidths == {13}

\* C13 (as stated): the heights of 'main' and 'panner' add up to exactly
\* the container height.
C13_HeightsAddUpExactly ==
    ({"main", "panner"} \subseteq Queried)
        => Plus(Get(Position("main"), "height"), Get(Position("panner"), "height"))
              = Height

\* C13 (amended): the two heights add up to the container height up to
\* floating-point rounding (within height * 2^-51), and exactly for the
\* heights outside InexactHeights.
C13_HeightsAddUpToRounding ==
    ({"main", "panner"} \subseteq Queried)
        => LET sum == Plus(Get(Position("main"), "height"),
                           Get(Position("panner"), "height"))
           IN  /\ Near(sum, Height, Height)
               /\ (sum = Height) = (Height.v \notin InexactHeights)

C13_Witness ==
    /\ {"main", "panner"} \subseteq Queried
    /\ Height = Num(3)
    /\ Plus(Get(Position("main"), "height"), Get(Position("panner"), "height")) # Num(3)

\* C14: 'lithography' has x = 0.9 * width, y = 0, width = 0.1 * width and
\* height = 0.8 * height of the container.
C14_LithographyPosition ==
    (ChartPositionCalled /\ lastCall.chartType = "lithography")
        => /\ lastCall.outcome.ok
           /\ lastCall.outcome.value.t = "object"
           /\ lastCall.outcome.value.props
                 = [x |-> Times(Width, Dbl09), y |-> Num(0),
                    width |-> Times(Width, Dbl01), height |-> Times(Height, Dbl08)]
           /\ (Width = Num(10)
                 => /\ Get(lastCall.outcome.value, "x") = Num(9)
                    /\ Get(lastCall.outcome.value, "width") = Num(1))
           /\ (Height = Num(5) => Get(lastCall.outcome.value, "height") = Num(4))
           /\ (Width = Num(0) => Get(lastCall.outcome.value, "x") = Num(0))

C14_Witness ==
    /\ ChartPositionCalled
    /\ lastCall.chartType = "lithography"
    /\ Width = Num(10)
    /\ Get(lastCall.outcome.value, "x") = Num(9)

\* C15: for an id other than 'main', 'panner' and 'lithography' the
\* selector returns undefined without failing, now and on every later call.
C15_UnknownPanelUndefined ==
    /\ (ChartPositionCalled /\ lastCall.chartType \notin Panels)
          => lastCall.outcome = Return(Undefined)
    /\ \A chartType \in ChartTypes \ Panels : QueryNow(chartType) = Return(Undefined)

\* the unknown id asked for again, after the size was set
C15_Witness ==
    /\ ChartPositionCalled
    /\ lastCall.chartType \notin Panels
    /\ lastCall.outcome = Return(Undefined)
    /\ Get(state[MOUNT_POINT], "graphSize").t = "object"
    /\ lastCall.selector < Cardinality(DOMAIN cache)

\* C16: each id has one selector, the same at every request, and distinct
\* ids have distinct selectors.
C16_OnePerId ==
    /\ \A p \in DOMAIN cache : getChartPosition(cache, p).fn = cache[p].fn
    /\ \A p, q \in DOMAIN cache : p # q => cache[p].fn # cache[q].fn
    /\ ChartPositionCalled => lastCall.selector = cache[lastCall.chartType].fn

C16_Kept ==
    \A p \in DOMAIN cache : p \in DOMAIN cache' /\ cache'[p].fn = cache[p].fn

C16_SelectorPerPanel == []C16_OnePerId /\ [][C16_Kept]_vars

\* an id requested again after the selector of another id was created
C16_Witness ==
    /\ ChartPositionCalled
    /\ Cardinality(DOMAIN cache) >= 2
    /\ lastCall.selector = cache[lastCall.chartType].fn
    /\ lastCall.selector < Cardinality(DOMAIN cache)

\* C17: getScaleX maps the domain given onto [0, width] and getScaleY maps
\* it onto [0, height], whatever the domain.
C17_ScaleDomainAndRange ==
    /\ lastCall.fn = "getScaleX"
          => /\ lastCall.outcome.ok
             /\ lastCall.outcome.value.domain = lastCall.domain
             /\ lastCall.outcome.value.range = <<Num(0), Width>>
    /\ lastCall.fn = "getScaleY"
          => /\ lastCall.outcome.ok
             /\ lastCall.outcome.value.domain = lastCall.domain
             /\ lastCall.outcome.value.range = <<Num(0), Height>>

\* the x scale of a descending domain on a container wider than high
C17_Witness ==
    /\ lastCall.fn = "getScaleX"
    /\ lastCall.domain = <<Num(MaxNum), Num(0)>>
    /\ lastCall.outcome.value.range = <<Num(0), Num(MaxSize)>>
    /\ Height = Num(0)

\* C18 (as stated): 'lithography' has the y and the height of 'main' and
\* its right edge is exactly the right edge of 'main'.
C18_RightEdgesEqual ==
    ({"main", "lithography"} \subseteq Queried)
        => /\ Get(Position("lithography"), "y") = Get(Position("main"), "y")
           /\ Get(Position("lithography"), "height") = Get(Position("main"), "height")
           /\ Plus(Get(Position("lithography"), "x"), Get(Position("lithography"), "width"))
                 = Plus(Get(Position("main"), "x"), Get(Position("main"), "width"))

\* C18 (amended): 'lithography' has the y and the height of 'main', starts
\* at or right of its left edge and overlaps it when width and height are
\* positive; the right edges agree up to floating-point rounding (within
\* width * 2^-51), and exactly for the widths outside InexactWidths.
C18_RightEdgesEqualToRounding ==
    ({"main", "lithography"} \subseteq Queried)
        => LET lith == Position("lithography")
               main == Position("main")
               lithRight == Plus(Get(lith, "x"), Get(lith, "width"))
               mainRight == Plus(Get(main, "x"), Get(main, "width"))
           IN  /\ Get(lith, "y") = Get(main, "y")
               /\ Get(lith, "height") = Get(main, "height")
               /\ LeqB(ToFix(Get(main, "x")), ToFix(Get(lith, "x")))
               /\ (Width # Num(0) /\ Height # Num(0))
                     => /\ Below(Get(lith, "x"), mainRight)
                        /\ Below(Get(main, "x"), lithRight)
                        /\ Get(lith, "height") # Num(0)
               /\ Near(lithRight, mainRight, Width)
               /\ (lithRight = mainRight) = (Width.v \notin InexactWidths)

C18_Witness ==
    /\ {"main", "lithography"} \subseteq Queried
    /\ Width = Num(13)
    /\ Plus(Get(Position("lithography"), "x"), Get(Position("lithography"), "width"))
          # Num(13)

\* C19: a set action whose payload is an object without the fields stores
\* undefined for each of them; for GRAPH_SIZE_SET getContainerSize then
\* returns the stored record, not {width: 0, height: 0}.
C19_MissingFieldsStoredUndefined ==
    /\ (/\ ReducerCalled
        /\ lastCall.action.type = GRAPH_SIZE_SET
        /\ lastCall.action.payload = Obj(0, NoProps))
          => /\ lastCall.outcome.ok
             /\ Get(lastCall.outcome.value, "graphSize").t = "object"
             /\ Get(lastCall.outcome.value, "graphSize").props
                   = [width |-> Undefined, height |-> Undefined]
             /\ getContainerSize(state, nextRef)
                   = Return(Get(lastCall.outcome.value, "graphSize"))
    /\ (/\ ReducerCalled
        /\ lastCall.action.type \in SetTypes
        /\ lastCall.action.payload = Obj(0, NoProps))
          => /\ lastCall.outcome.ok
             /\ \A k \in LayoutKeys :
                    lastCall.action.type \in Writers(k) =>
                        /\ Get(lastCall.outcome.value, k).t = "object"
                        /\ \A f \in DOMAIN Get(lastCall.outcome.value, k).props :
                               Get(Get(lastCall.outcome.value, k), f) = Undefined
    /\ (/\ lastCall.fn = "getContainerSize"
        /\ lastCall.state = state
        /\ Get(state[MOUNT_POINT], "graphSize").t = "object")
          => lastCall.outcome = Return(Get(state[MOUNT_POINT], "graphSize"))

\* getContainerSize called on a state whose graphSize lacks both values
C19_Witness ==
    /\ lastCall.fn = "getContainerSize"
    /\ lastCall.state = state
    /\ lastCall.outcome.ok
    /\ PropsOf(lastCall.outcome.value) = [width |-> Undefined, height |-> Undefined]
    /\ GRAPH_SIZE_SET \in dispatched

\* C20: a panel's selector never answers with a position computed from a
\* container size other than the current state's, and a request for one
\* panel leaves what the selectors of the other panels hold unchanged.
C20_NeverStale ==
    /\ \A p \in Panels :
           /\ QueryNow(p).ok
           /\ PropsOf(QueryNow(p).value) = Computed(p).props
    /\ (ChartPositionCalled /\ lastCall.chartType \in Panels)
          => PropsOf(lastCall.outcome.value) = Computed(lastCall.chartType).props

C20_OthersUntouched ==
    lastCall'.fn = "getChartPosition"
        => \A q \in DOMAIN cache \ {lastCall'.chartType} :
               q \in DOMAIN cache' /\ cache'[q] = cache[q]

C20_CachesCoherent == []C20_NeverStale /\ [][C20_OthersUntouched]_vars

\* a panel answered from the new size while another panel's selector still
\* holds the position of the size before
C20_Witness ==
    /\ ChartPositionCalled
    /\ lastCall.chartType \in Panels
    /\ Get(state[MOUNT_POINT], "graphSize").t = "object"
    /\ lastCall.outcome.value.ref > Get(state[MOUNT_POINT], "graphSize").ref
    /\ \E q \in (Queried \cap Panels) \ {lastCall.chartType} :
           /\ cache[q].lastArgs # state
           /\ PropsOf(cache[q].resultArgs) # PropsOf(SizeNow)

====
